---- MODULE Spec2Model ----
(***************************************************************************)
(* A model of the PyPiScraper crawl engine (src/app/scrapper.py), its      *)
(* record sink (src/app/database.py) and its entry point (src/main.py).    *)
(*                                                                         *)
(* Spec      : the engine.  One process at a time runs main(): it builds   *)
(*             PyPiScrapper (load_progress), runs scrape_all_projects and  *)
(*             ends; the process can be killed at any point and started    *)
(*             again.  The progress file and its temporary file are the    *)
(*             only state that survives a process.                         *)
(* SpecFetch : fetch_page behind the ratelimit decorators and the cached   *)
(*             session, with a clock in seconds.                           *)
(***************************************************************************)
EXTENDS Integers, Sequences, FiniteSets, TLC

VARIABLES
    \* ---- the environment of the engine
    site,             \* the index: page number -> the links that page lists
    fs,               \* the disk: file name -> content
    \* ---- the process (PyPiScrapper fields and locals of scrape_all_projects)
    pc,               \* where the process is
    visited_projects, \* self.visited_projects
    last_page,        \* self.last_page
    page,             \* local page of scrape_all_projects
    projects,         \* local projects: the links of the current listing page
    idx,              \* position of the for loop in projects (1-based)
    project_data,     \* the Record scrape_project_page returned
    doc,              \* the detail document that Record was parsed from
    \* ---- observations (history), never read by the program
    runs,             \* processes started so far
    loaded,           \* the progress file as load_progress found it in this run
    firstPage,        \* first listing page this run asked for (0: none yet)
    detailFetches,    \* link -> detail fetches in this run
    noneReturns,      \* link -> scrape_project_page calls that returned None
    enrichCalls,      \* link -> get_repo_details calls in this run
    sinkCallsRun,     \* link -> insert_project calls in this run
    sinkCalls,        \* link -> insert_project calls over all runs
    failures,         \* the kinds of failure met in this run
    endCause,         \* why this run ended ("none" while it runs)
    saveLog,          \* outcomes of the save_progress calls of this run
    prevFile,         \* canonical file content when the last save_progress began
    newData,          \* the data dict of the last save_progress
    \* ---- fetch_page behind its rate limiter (SpecFetch)
    clock,            \* time in seconds
    num_calls,        \* RateLimitDecorator.num_calls
    last_reset,       \* RateLimitDecorator.last_reset
    cache,            \* CachedSession: URL -> time its entry expires (0: none)
    fpc,              \* where the current fetch_page call is
    url,              \* the URL of the current call
    attempt,          \* loop variable of fetch_page
    calls,            \* fetch_page calls made so far
    winGets,          \* network GETs sent inside the limiter's current window
    timeouts,         \* GETs that timed out so far
    hitNow,           \* the URL of the current call was live in the cache
    charged,          \* the current call was counted by the limiter
    slept,            \* the current call slept in sleep_and_retry
    outcomes,         \* how each session.get of the current call ended
    delays,           \* the backoff sleeps of the current call, in seconds
    returned,         \* what the current call returns: "content" or "None"
    \* ---- which client the calls go through (SpecClients)
    api,              \* "pypi": fetch_page, "github": fetch_github_api
    github_token,     \* GITHUB_TOKEN is set in the environment
    admitted,         \* fetch_github_api calls let through in the window
    \* ---- get_repo_details up to its API call (SpecRepo)
    github_url,       \* the argument: the path urllib3 parses out of it
    rpc,              \* "idle", "called" or "returned"
    repo_out          \* what extract_owner_repo and get_repo_details did

engineVars == <<site, fs, pc, visited_projects, last_page, page, projects, idx,
                project_data, doc, runs, loaded, firstPage, detailFetches,
                noneReturns,
                enrichCalls, sinkCallsRun, sinkCalls, failures, endCause,
                saveLog, prevFile, newData>>

fetchVars == <<clock, num_calls, last_reset, cache, fpc, url, attempt, calls,
               winGets, timeouts, hitNow, charged, slept, outcomes, delays,
               returned>>

clientVars == <<api, github_token, admitted>>

repoVars == <<github_url, rpc, repo_out>>

\* What neither the engine nor fetch_page touches.
otherVars == <<repoVars, clientVars>>

vars == <<engineVars, fetchVars, otherVars>>

(***************************************************************************)
(* Bounds of the model.                                                    *)
(***************************************************************************)
NumPages == 2     \* listing pages the modelled index can have
MaxRuns == 2      \* processes started one after the other

Links == {"a", "b", "c"}

\* What one listing page can hold.
Listings == {<<>>, <<"a", "b">>, <<"b", "c">>}

Last(s) == s[Len(s)]

(***************************************************************************)
(* The disk.                                                               *)
(***************************************************************************)
ProgressFile == "progress.json"

FileNames == {"progress.json", "progress.json.tmp"}

\* A mutation of TempFile: the checkpoint is written in place.
TempFile_InPlace == ProgressFile

\* temp_file = self.progress_file + ".tmp"
TempFile == "progress.json.tmp"

Content(k, v, n) == [kind |-> k, visited_projects |-> v, last_page |-> n]

Absent == Content("absent", {}, 0)          \* no such file
Empty == Content("empty", {}, 0)            \* opened with "w": truncated
Partial == Content("partial", {}, 0)        \* a prefix of a JSON document
Invalid == Content("invalid", {}, 0)        \* text that is not JSON
NonObject == Content("nonobject", {}, 0)    \* JSON, but not an object
Checkpoint(v, n) == Content("checkpoint", v, n)

\* What the progress file can hold when the first process starts.
InitialFiles ==
    {Absent, Invalid, NonObject}
        \cup {Checkpoint(v, n) : v \in SUBSET Links, n \in 1..NumPages}

\* os.replace(src, dst)
Replace(f, src, dst) ==
    IF src = dst THEN f ELSE [f EXCEPT ![dst] = f[src], ![src] = Absent]

\* if os.path.exists(temp_file): os.remove(temp_file)
RemoveIfExists(f, name) == [f EXCEPT ![name] = Absent]


(***************************************************************************)
(* load_progress.                                                          *)
(***************************************************************************)
Fresh == [raised |-> FALSE, visited_projects |-> {}, last_page |-> 1]

\* What load_progress leaves in the engine for a progress file holding f.
\* open() of a missing file raises FileNotFoundError and json.load of text
\* that is not JSON raises JSONDecodeError: both are caught and start fresh.
\* data.get on a JSON value that is not an object raises AttributeError,
\* which no except clause of load_progress names.
LoadProgress(f) ==
    CASE f.kind = "absent" -> Fresh
      [] f.kind \in {"invalid", "partial", "empty"} -> Fresh
      [] f.kind = "nonobject" ->
            [raised |-> TRUE, visited_projects |-> {}, last_page |-> 1]
      [] OTHER ->
            [raised |-> FALSE, visited_projects |-> f.visited_projects,
             last_page |-> f.last_page]

(***************************************************************************)
(* scrape_search_page.                                                     *)
(***************************************************************************)
\* The links of listing page p; a page the index does not have lists nothing.
Listing(p) == IF p \in DOMAIN site THEN site[p] ELSE <<>>

\* What scrape_search_page returns: the hrefs of the cards when the page was
\* fetched, [] when fetch_page returned None.
ScrapeSearchPageResult(fetched, p) == IF fetched THEN Listing(p) ELSE <<>>

(***************************************************************************)
(* scrape_project_page.                                                    *)
(***************************************************************************)
\* A detail document, as far as scrape_project_page looks at it:
\*   title     h1.package-header__name is there
\*   titleLink that h1 holds an <a>
\*   summary   p.package-description__summary is there
\*   maint     span.sidebar-section__maintainer: missing, there without an
\*             <a>, there with an <a>
\*   repo      the first href containing github.com: none, one whose path
\*             has owner and repository, one whose path is shorter
Docs ==
    [title : BOOLEAN, titleLink : BOOLEAN, summary : BOOLEAN,
     maint : {"none", "nolink", "link"}, repo : {"none", "ok", "short"}]

NoDoc == [title |-> FALSE, titleLink |-> FALSE, summary |-> FALSE,
          maint |-> "none", repo |-> "none"]

\* project_title
ProjectTitle(d) == IF d.title THEN "text" ELSE "N/A"

\* project_description: the conditional tests project_title_tag, so a
\* document with a title and no summary reads .text of None.
DescriptionRaises(d) == d.title /\ ~d.summary

ProjectDescription(d) ==
    IF d.title THEN "text" ELSE "No description available"

\* project_maintainer: the condition calls project_title_tag.find("a"), and
\* the branch reads project_maintainer_tag.find("a").text.
MaintainerRaises(d) ==
    /\ d.maint # "none"
    /\ \/ ~d.title
       \/ d.title /\ d.titleLink /\ d.maint = "nolink"

ProjectMaintainer(d) ==
    IF d.maint # "none" /\ d.title /\ d.titleLink THEN "text" ELSE "Unknown"

\* An AttributeError leaves scrape_project_page while it parses d.
ParseRaises(d) == DescriptionRaises(d) \/ MaintainerRaises(d)

\* What get_repo_details can return for the repository link of d: None for
\* a link without owner and repository, None or the API's JSON object
\* otherwise.
RepoDetails(d) == IF d.repo = "ok" THEN {"None", "data"} ELSE {"None"}

\* The enrichment fields of Project.
RepoFields ==
    {"repo_name", "repo_description", "repo_html_url",
     "repo_stargazers_count", "repo_forks_count", "repo_open_issues_count",
     "repo_language", "repo_updated_at", "repo_created_at",
     "repo_watchers_count"}

\* A mutation of EnrichFields: repo_html_url is taken from the link of the
\* page whenever there is one.
EnrichFields_UrlFromLink(d, repo_data) ==
    [f \in RepoFields |->
        IF d.repo # "none" /\ (repo_data = "data" \/ f = "repo_html_url")
           THEN "response" ELSE "unset"]

\* Where each enrichment field of the Project comes from: "unset" is the
\* initial None or 0, "response" is repo_data.get(...) of the object
\* get_repo_details returned.  The fields are assigned only under
\* if project_github_repo: ... if repo_data:
EnrichFields(d, repo_data) ==
    [f \in RepoFields |->
        IF d.repo # "none" /\ repo_data = "data"
           THEN "response" ELSE "unset"]

\* The Project built from d and the value get_repo_details returned.
BuildProject(d, repo_data) ==
    [project_title |-> ProjectTitle(d),
     project_description |-> ProjectDescription(d),
     project_maintainer |-> ProjectMaintainer(d),
     project_github_repo |-> d.repo,
     repo_fields |-> EnrichFields(d, repo_data)]

NoProject == [project_title |-> "", project_description |-> "",
              project_maintainer |-> "", project_github_repo |-> "none",
              repo_fields |-> [f \in RepoFields |-> "unset"]]

(***************************************************************************)
(* insert_project and the use scrape_all_projects makes of its result.     *)
(***************************************************************************)
\* What the Supabase call can do.
SinkOutcomes == {"ok", "error", "exception"}

\* The value insert_project returns: res.data (the list of inserted rows)
\* on success, None when the response carries an error or the call raised.
InsertProjectResult(outcome) == IF outcome = "ok" THEN "list" ELSE "None"

\* Reading value.error works: it does for a response object, and raises
\* AttributeError for a list and for None.
HasErrorAttribute(value) == value = "response"

\* A mutation of AlreadyVisited: the skip test never fires.
AlreadyVisited_Never(project, visited) == FALSE

\* if project in self.visited_projects
AlreadyVisited(project, visited) == project \in visited

(***************************************************************************)
(* save_progress.                                                          *)
(***************************************************************************)
\* A mutation of CaughtBySave: the handler names one exception class.
CaughtBySave_ValueErrorOnly(exc) == exc = "ValueError"

\* except Exception: every error of open, json.dump and os.replace is one.
CaughtBySave(exc) == exc \in {"OSError", "TypeError", "ValueError"}

\* data, as the file will hold it
SaveData(visited, n) == Checkpoint(visited, n)

\* A mutation of LastPageAfter: the page to do next is recorded.
LastPageAfter_Next(p) == p + 1

\* self.last_page = page, after the for loop over the links of page p
LastPageAfter(p) == p

ZeroCount == [l \in Links |-> 0]

Running == {"constructed", "paging", "items", "insert", "save_open",
            "save_dump", "save_flush", "save_replace", "advance"}

Ended == {"done", "raised", "killed"}


(***************************************************************************)
(* fetch_page: the ratelimit decorators, the cached session, the retries.  *)
(***************************************************************************)
MaxCalls == 16            \* fetch_page calls in one behaviour
MaxTimeouts == 3          \* GETs that time out in one behaviour

Urls == {"u1", "u2"}

RATE_LIMIT_CALLS == 15
RATE_LIMIT_PERIOD == 60
Retries == 3
BackoffFactor == 1
DelayLow == 3
DelayHigh == 6
CacheExpiry == 3600
RequestTimeout == 10

\* random.uniform(*self.delay_range): the two ends of the range
Jitter == {DelayLow, DelayHigh}

\* backoff_factor * (2**attempt)
Backoff_Linear(i) == BackoffFactor * (i + 1)

Backoff(i) == BackoffFactor * (2 ^ i)

\* The session answers url from its cache: an entry is there and has not
\* expired.
Live(u) == clock < cache[u]

\* RateLimitDecorator.__period_remaining
PeriodRemaining == RATE_LIMIT_PERIOD - (clock - last_reset)

\* The statuses raise_for_status turns into an HTTPError.
HTTPErrorStatuses == {"403", "404", "500"}

\* What one GET that goes to the network can end with.
GetOutcomes == {"ok", "timeout", "request_error"} \cup HTTPErrorStatuses

\* The except clauses of fetch_page that do not break: the loop goes on to
\* the backoff sleep.
FetchPageRetries_Transport(outcome) == outcome \in {"timeout", "request_error"}

FetchPageRetries(outcome) == outcome = "timeout"

\* for attempt in range(retries), after the sleep that ends attempt a
MoreAttempts_OneExtra(a) == a < Retries

MoreAttempts(a) == a + 1 < Retries

\* How the latest session.get of the current call ended.
LastOutcome == IF outcomes = <<>> THEN "none" ELSE outcomes[Len(outcomes)]

(***************************************************************************)
(* GitHubAPI.extract_owner_repo and the start of get_repo_details.         *)
(***************************************************************************)
MaxSegments == 3          \* pieces between the slashes of a URL path

\* Text is a sequence of characters.  The pieces a URL path is made of:
\* "", "o", "r", "r.git", "r.gitx", ".gitr".
Segments ==
    {<<>>, <<"o">>, <<"r">>, <<"r", ".", "g", "i", "t">>,
     <<"r", ".", "g", "i", "t", "x">>, <<".", "g", "i", "t", "r">>}

DotGit == <<".", "g", "i", "t">>

\* A URL: path = FALSE when urllib3.util.parse_url finds no path (path is
\* None, as for "https://github.com"), otherwise the path is "/" followed
\* by the pieces joined with "/".
RepoUrls ==
    {[path |-> FALSE, pieces |-> <<>>]}
        \cup {[path |-> TRUE, pieces |-> q] :
                 q \in UNION {[1..n -> Segments] : n \in 0..MaxSegments}}

\* pat starts at position i of text
OccursAt(text, pat, i) ==
    /\ i + Len(pat) - 1 <= Len(text)
    /\ \A k \in 1..Len(pat) : text[i + k - 1] = pat[k]

\* text.split(pat)[0]: what stands before the first pat, all of text when
\* pat is not in it
SplitFirst(text, pat) ==
    LET hits == {i \in 1..Len(text) : OccursAt(text, pat, i)}
    IN IF hits = {} THEN text
       ELSE SubSeq(text, 1, (CHOOSE i \in hits : \A j \in hits : i <= j) - 1)

RECURSIVE DropLeadingEmpty(_)
DropLeadingEmpty(q) ==
    IF q # <<>> /\ Head(q) = <<>> THEN DropLeadingEmpty(Tail(q)) ELSE q

RECURSIVE DropTrailingEmpty(_)
DropTrailingEmpty(q) ==
    IF q # <<>> /\ q[Len(q)] = <<>>
       THEN DropTrailingEmpty(SubSeq(q, 1, Len(q) - 1))
       ELSE q

\* path.strip("/").split("/") on the path "/" + pieces joined by "/":
\* strip drops the slashes at both ends, that is the empty pieces there;
\* split of the empty text gives [""].
PathParts(pieces) ==
    LET inner == DropTrailingEmpty(DropLeadingEmpty(pieces))
    IN IF inner = <<>> THEN << <<>> >> ELSE inner

NoneValue == <<"None">>

\* extract_owner_repo(github_url): raised stands for the AttributeError of
\* None.strip when the URL has no path.
ExtractOwnerRepo(u) ==
    IF ~u.path
       THEN [raised |-> TRUE, owner |-> NoneValue, repo |-> NoneValue]
       ELSE LET path_parts == PathParts(u.pieces)
            IN IF Len(path_parts) >= 2
                  THEN [raised |-> FALSE, owner |-> path_parts[1],
                        repo |-> SplitFirst(path_parts[2], DotGit)]
                  ELSE [raised |-> FALSE, owner |-> NoneValue,
                        repo |-> NoneValue]

\* not x, for x a text or None
Falsy(x) == x = NoneValue \/ x = <<>>

\* get_repo_details(github_url) up to the call of fetch_github_api
RepoDetailsStart(u) ==
    LET e == ExtractOwnerRepo(u)
    IN [raised |-> e.raised, owner |-> e.owner, repo |-> e.repo,
        returnedNone |-> ~e.raised /\ (Falsy(e.owner) \/ Falsy(e.repo)),
        apiCalled |-> ~e.raised /\ ~(Falsy(e.owner) \/ Falsy(e.repo))]

NoRepoOut == [raised |-> FALSE, owner |-> NoneValue, repo |-> NoneValue,
              returnedNone |-> FALSE, apiCalled |-> FALSE]

InitRepo ==
    /\ github_url = [path |-> FALSE, pieces |-> <<>>]
    /\ rpc = "idle"
    /\ repo_out = NoRepoOut

(***************************************************************************)
(* The engine: Init and the steps of main().                               *)
(***************************************************************************)
InitFetch ==
    /\ clock = 0
    /\ num_calls = 0
    /\ last_reset = 0
    /\ cache = [u \in Urls |-> 0]
    /\ fpc = "idle"
    /\ url = "none"
    /\ attempt = 0
    /\ calls = 0
    /\ winGets = 0
    /\ timeouts = 0
    /\ hitNow = FALSE
    /\ charged = FALSE
    /\ slept = FALSE
    /\ outcomes = <<>>
    /\ delays = <<>>
    /\ returned = "pending"

InitClient ==
    /\ api = "pypi"
    /\ github_token = FALSE
    /\ admitted = 0

InitEngine ==
    /\ site \in [1..NumPages -> Listings]
    /\ \E f \in InitialFiles :
          /\ fs = [n \in FileNames |-> IF n = ProgressFile THEN f ELSE Absent]
          /\ prevFile = f
          /\ newData = f
    /\ pc = "off"
    /\ visited_projects = {}
    /\ last_page = 1
    /\ page = 0
    /\ projects = <<>>
    /\ idx = 0
    /\ project_data = NoProject
    /\ doc = NoDoc
    /\ runs = 0
    /\ loaded = Absent
    /\ firstPage = 0
    /\ detailFetches = ZeroCount
    /\ noneReturns = ZeroCount
    /\ enrichCalls = ZeroCount
    /\ sinkCallsRun = ZeroCount
    /\ sinkCalls = ZeroCount
    /\ failures = {}
    /\ endCause = "none"
    /\ saveLog = <<>>

Init == InitEngine /\ InitFetch /\ InitRepo /\ InitClient

\* main() builds PyPiScrapper: __init__ sets the fields and calls
\* load_progress.  The constructor call stands outside main's try, so an
\* exception of load_progress ends the process.
Construct ==
    /\ pc \in {"off"} \cup Ended
    /\ runs < MaxRuns
    /\ LET r == LoadProgress(fs[ProgressFile])
       IN /\ loaded' = fs[ProgressFile]
          /\ visited_projects' = r.visited_projects
          /\ last_page' = r.last_page
          /\ pc' = IF r.raised THEN "raised" ELSE "constructed"
          /\ endCause' = IF r.raised THEN "load" ELSE "none"
    /\ runs' = runs + 1
    /\ page' = 0
    /\ projects' = <<>>
    /\ idx' = 0
    /\ project_data' = NoProject
    /\ doc' = NoDoc
    /\ firstPage' = 0
    /\ detailFetches' = ZeroCount
    /\ noneReturns' = noneReturns
    /\ enrichCalls' = ZeroCount
    /\ sinkCallsRun' = ZeroCount
    /\ failures' = {}
    /\ saveLog' = <<>>
    /\ prevFile' = fs[ProgressFile]
    /\ newData' = fs[ProgressFile]
    /\ UNCHANGED <<site, fs, sinkCalls, fetchVars, otherVars>>

\* scrape_all_projects starts: page = self.last_page
Begin ==
    /\ pc = "constructed"
    /\ page' = last_page
    /\ pc' = "paging"
    /\ UNCHANGED <<site, fs, visited_projects, last_page, projects, idx,
                   project_data, doc, runs, loaded, firstPage, detailFetches,
                   noneReturns, enrichCalls, sinkCallsRun, sinkCalls, failures, endCause,
                   saveLog, prevFile, newData, fetchVars, otherVars>>

\* projects = self.scrape_search_page(page); if not projects: break
ScrapeSearchPage ==
    /\ pc = "paging"
    /\ \E fetched \in BOOLEAN :
          LET result == ScrapeSearchPageResult(fetched, page)
          IN /\ projects' = result
             /\ failures' = IF fetched THEN failures
                            ELSE failures \cup {"listing"}
             /\ IF result = <<>>
                   THEN /\ pc' = "done"
                        /\ endCause' = IF fetched THEN "listing_empty"
                                       ELSE "listing_failed"
                        /\ idx' = 0
                   ELSE /\ pc' = "items"
                        /\ endCause' = endCause
                        /\ idx' = 1
    /\ firstPage' = IF firstPage = 0 THEN page ELSE firstPage
    /\ UNCHANGED <<site, fs, visited_projects, last_page, page, project_data,
                   doc, runs, loaded, detailFetches, noneReturns,
                   enrichCalls,
                   sinkCallsRun, sinkCalls, saveLog, prevFile, newData,
                   fetchVars, otherVars>>

\* for project in projects: if project in self.visited_projects: continue
SkipVisited ==
    /\ pc = "items"
    /\ idx <= Len(projects)
    /\ AlreadyVisited(projects[idx], visited_projects)
    /\ idx' = idx + 1
    /\ UNCHANGED <<site, fs, pc, visited_projects, last_page, page, projects,
                   project_data, doc, runs, loaded, firstPage, detailFetches,
                   noneReturns, enrichCalls, sinkCallsRun, sinkCalls, failures, endCause,
                   saveLog, prevFile, newData, fetchVars, otherVars>>

\* A mutation of DetailUnavailable: the link is marked visited all the same.
DetailUnavailable_MarksVisited ==
    /\ pc = "items"
    /\ idx <= Len(projects)
    /\ ~AlreadyVisited(projects[idx], visited_projects)
    /\ detailFetches' =
          [detailFetches EXCEPT ![projects[idx]] = @ + 1]
    /\ noneReturns' = [noneReturns EXCEPT ![projects[idx]] = @ + 1]
    /\ failures' = failures \cup {"detail"}
    /\ idx' = idx + 1
    /\ visited_projects' = visited_projects \cup {projects[idx]}
    /\ UNCHANGED <<site, fs, pc, last_page, page, projects, project_data,
                   doc, runs, loaded, firstPage, enrichCalls, sinkCallsRun,
                   sinkCalls, endCause, saveLog, prevFile, newData,
                   fetchVars, otherVars>>

\* project_data = self.scrape_project_page(project), the detail page not
\* fetched: None comes back, the link is passed over.
DetailUnavailable ==
    /\ pc = "items"
    /\ idx <= Len(projects)
    /\ ~AlreadyVisited(projects[idx], visited_projects)
    /\ detailFetches' =
          [detailFetches EXCEPT ![projects[idx]] = @ + 1]
    /\ noneReturns' = [noneReturns EXCEPT ![projects[idx]] = @ + 1]
    /\ failures' = failures \cup {"detail"}
    /\ idx' = idx + 1
    /\ UNCHANGED <<site, fs, pc, visited_projects, last_page, page, projects,
                   project_data, doc, runs, loaded, firstPage, enrichCalls,
                   sinkCallsRun, sinkCalls, endCause, saveLog, prevFile,
                   newData, fetchVars, otherVars>>

\* project_data = self.scrape_project_page(project), the detail page
\* fetched: it is parsed, enriched when it names a repository, and a
\* Project comes back, unless the parse reads an attribute of None.
ScrapeProjectPage ==
    /\ pc = "items"
    /\ idx <= Len(projects)
    /\ ~AlreadyVisited(projects[idx], visited_projects)
    /\ detailFetches' =
          [detailFetches EXCEPT ![projects[idx]] = @ + 1]
    /\ \E d \in Docs :
          /\ doc' = d
          /\ IF ParseRaises(d)
                THEN /\ pc' = "raised"
                     /\ endCause' = "parse"
                     /\ failures' = failures \cup {"parse"}
                     /\ UNCHANGED <<project_data, enrichCalls>>
                ELSE \E repo_data \in RepoDetails(d) :
                        /\ project_data' = BuildProject(d, repo_data)
                        /\ enrichCalls' =
                              IF d.repo # "none"
                                 THEN [enrichCalls EXCEPT
                                          ![projects[idx]] = @ + 1]
                                 ELSE enrichCalls
                        /\ failures' =
                              IF d.repo # "none" /\ repo_data = "None"
                                 THEN failures \cup {"enrich"}
                                 ELSE failures
                        /\ pc' = "insert"
                        /\ endCause' = endCause
    /\ UNCHANGED <<site, fs, visited_projects, last_page, page, projects, idx,
                   runs, loaded, firstPage, noneReturns, sinkCallsRun,
                   sinkCalls, saveLog, prevFile, newData, fetchVars, otherVars>>

\* res = self.db.insert_project(project_data); if res.error: ... else: ...;
\* self.visited_projects.add(project)
InsertProject ==
    /\ pc = "insert"
    /\ sinkCallsRun' = [sinkCallsRun EXCEPT ![projects[idx]] = @ + 1]
    /\ sinkCalls' = [sinkCalls EXCEPT ![projects[idx]] = @ + 1]
    /\ \E outcome \in SinkOutcomes :
          LET res == InsertProjectResult(outcome)
          IN /\ failures' = IF outcome = "ok" THEN failures
                            ELSE failures \cup {"sink"}
             /\ IF HasErrorAttribute(res)
                   THEN /\ visited_projects' =
                              visited_projects \cup {projects[idx]}
                        /\ idx' = idx + 1
                        /\ pc' = "items"
                        /\ endCause' = endCause
                   ELSE /\ pc' = "raised"
                        /\ endCause' = "sink"
                        /\ UNCHANGED <<visited_projects, idx>>
    /\ UNCHANGED <<site, fs, last_page, page, projects, project_data, doc,
                   runs, loaded, firstPage, detailFetches, noneReturns,
                   enrichCalls,
                   saveLog, prevFile, newData, fetchVars, otherVars>>

\* The for loop is over: self.last_page = page, and save_progress builds
\* data.
PageComplete ==
    /\ pc = "items"
    /\ idx > Len(projects)
    /\ last_page' = LastPageAfter(page)
    /\ newData' = SaveData(visited_projects, LastPageAfter(page))
    /\ prevFile' = fs[ProgressFile]
    /\ pc' = "save_open"
    /\ UNCHANGED <<site, fs, visited_projects, page, projects, idx,
                   project_data, doc, runs, loaded, firstPage, detailFetches,
                   noneReturns, enrichCalls, sinkCallsRun, sinkCalls, failures, endCause,
                   saveLog, fetchVars, otherVars>>


\* with open(temp_file, "w") as file: the file is created or truncated
SaveOpen ==
    /\ pc = "save_open"
    /\ fs' = [fs EXCEPT ![TempFile] = Empty]
    /\ pc' = "save_dump"
    /\ UNCHANGED <<site, visited_projects, last_page, page, projects, idx,
                   project_data, doc, runs, loaded, firstPage, detailFetches,
                   noneReturns, enrichCalls, sinkCallsRun, sinkCalls, failures, endCause,
                   saveLog, prevFile, newData, fetchVars, otherVars>>

\* json.dump(data, file): part of the document is on disk
SaveDump ==
    /\ pc = "save_dump"
    /\ fs' = [fs EXCEPT ![TempFile] = Partial]
    /\ pc' = "save_flush"
    /\ UNCHANGED <<site, visited_projects, last_page, page, projects, idx,
                   project_data, doc, runs, loaded, firstPage, detailFetches,
                   noneReturns, enrichCalls, sinkCallsRun, sinkCalls, failures, endCause,
                   saveLog, prevFile, newData, fetchVars, otherVars>>

\* the with block ends: the rest is written and the file closed
SaveFlush ==
    /\ pc = "save_flush"
    /\ fs' = [fs EXCEPT ![TempFile] = newData]
    /\ pc' = "save_replace"
    /\ UNCHANGED <<site, visited_projects, last_page, page, projects, idx,
                   project_data, doc, runs, loaded, firstPage, detailFetches,
                   noneReturns, enrichCalls, sinkCallsRun, sinkCalls, failures, endCause,
                   saveLog, prevFile, newData, fetchVars, otherVars>>

\* os.replace(temp_file, self.progress_file)
SaveReplace ==
    /\ pc = "save_replace"
    /\ fs' = Replace(fs, TempFile, ProgressFile)
    /\ saveLog' = Append(saveLog, "ok")
    /\ pc' = "advance"
    /\ UNCHANGED <<site, visited_projects, last_page, page, projects, idx,
                   project_data, doc, runs, loaded, firstPage, detailFetches,
                   noneReturns, enrichCalls, sinkCallsRun, sinkCalls, failures, endCause,
                   prevFile, newData, fetchVars, otherVars>>

\* open, json.dump, the close or os.replace raises: except Exception logs,
\* removes the temporary file when it exists, and save_progress returns.
SaveFails ==
    /\ pc \in {"save_open", "save_dump", "save_flush", "save_replace"}
    /\ failures' = failures \cup {"save"}
    /\ IF CaughtBySave("OSError")
          THEN /\ fs' = RemoveIfExists(fs, TempFile)
               /\ saveLog' = Append(saveLog, "failed")
               /\ pc' = "advance"
               /\ endCause' = endCause
          ELSE /\ pc' = "raised"
               /\ endCause' = "save"
               /\ UNCHANGED <<fs, saveLog>>
    /\ UNCHANGED <<site, visited_projects, last_page, page, projects, idx,
                   project_data, doc, runs, loaded, firstPage, detailFetches,
                   noneReturns, enrichCalls, sinkCallsRun, sinkCalls, prevFile, newData,
                   fetchVars, otherVars>>

\* page += 1; time.sleep(...)
Advance ==
    /\ pc = "advance"
    /\ page' = page + 1
    /\ pc' = "paging"
    /\ UNCHANGED <<site, fs, visited_projects, last_page, projects, idx,
                   project_data, doc, runs, loaded, firstPage, detailFetches,
                   noneReturns, enrichCalls, sinkCallsRun, sinkCalls, failures, endCause,
                   saveLog, prevFile, newData, fetchVars, otherVars>>

\* The process is killed (a signal, a power cut): only the disk stays.
Kill ==
    /\ pc \in Running
    /\ pc' = "killed"
    /\ endCause' = "killed"
    /\ UNCHANGED <<site, fs, visited_projects, last_page, page, projects, idx,
                   project_data, doc, runs, loaded, firstPage, detailFetches,
                   noneReturns, enrichCalls, sinkCallsRun, sinkCalls, failures, saveLog,
                   prevFile, newData, fetchVars, otherVars>>

Next ==
    \/ Construct
    \/ Begin
    \/ ScrapeSearchPage
    \/ SkipVisited
    \/ DetailUnavailable
    \/ ScrapeProjectPage
    \/ InsertProject
    \/ PageComplete
    \/ SaveOpen
    \/ SaveDump
    \/ SaveFlush
    \/ SaveReplace
    \/ SaveFails
    \/ Advance
    \/ Kill

Spec == Init /\ [][Next]_vars


(***************************************************************************)
(* Properties of the engine.                                               *)
(***************************************************************************)
RECURSIVE SumOver(_, _)
SumOver(f, S) ==
    IF S = {} THEN 0
    ELSE LET x == CHOOSE y \in S : TRUE IN f[x] + SumOver(f, S \ {x})

Total(f) == SumOver(f, Links)

InSave == pc \in {"save_open", "save_dump", "save_flush", "save_replace"}

\* C1: every link whose Record reached insert_project was handed over
\* exactly once in the run, is in visited_projects afterwards, and the sink
\* call did not end the run, whatever the sink answered.
C1_SinkThenVisited ==
    \A l \in Links :
        sinkCallsRun[l] > 0 =>
            /\ sinkCallsRun[l] = 1
            /\ l \in visited_projects
            /\ endCause # "sink"

\* C2: once the engine is constructed, a run of scrape_all_projects ends
\* only on an empty or failed listing page (or because the process was
\* killed): nothing that happens to an item ends the loop or raises out of
\* scrape_all_projects.
C2_OnlyListingEndsCrawl ==
    endCause \in {"none", "load", "killed", "listing_empty", "listing_failed"}

\* C3: over all runs that share the progress file, no link is handed to
\* insert_project more than once.
C3_SinkAtMostOnceAcrossRuns == \A l \in Links : sinkCalls[l] <= 1

\* C4: a run started from a checkpoint asks first for the checkpoint's
\* last_page, and no link of the checkpoint's visited set gets a detail
\* fetch, an enrichment call or a sink call in that run.
C4_ResumeSkipsVisited ==
    loaded.kind = "checkpoint" =>
        /\ firstPage \in {0, loaded.last_page}
        /\ \A l \in loaded.visited_projects :
              /\ detailFetches[l] = 0
              /\ enrichCalls[l] = 0
              /\ sinkCallsRun[l] = 0

\* A run resumed at page 2 passed over the visited link "b" of that page
\* and fetched the detail page of "c", which is not in the checkpoint.
C4_Witness ==
    /\ loaded.kind = "checkpoint"
    /\ loaded.last_page = 2
    /\ firstPage = 2
    /\ "b" \in loaded.visited_projects
    /\ pc = "items"
    /\ projects = <<"b", "c">>
    /\ idx = 3
    /\ detailFetches["c"] = 1

\* The scenario of C5 has run to its end: no checkpoint at the start, page 1
\* lists a and b, page 2 lists nothing, the page of a names a repository,
\* and no fetch, enrichment or sink call failed.
C5_ScenarioEnded ==
    /\ runs = 1
    /\ loaded = Absent
    /\ Listing(1) = <<"a", "b">>
    /\ Listing(2) = <<>>
    /\ failures = {}
    /\ enrichCalls["a"] >= 1
    /\ pc \in {"done", "raised"}

\* C5: the scenario ends without error after 2 detail fetches, 1 enrichment
\* call and 2 sink calls, with the checkpoint {a, b} / last_page 2 on disk.
C5_EndToEnd ==
    C5_ScenarioEnded =>
        /\ pc = "done"
        /\ Total(detailFetches) = 2
        /\ Total(enrichCalls) = 1
        /\ Total(sinkCallsRun) = 2
        /\ fs[ProgressFile] = Checkpoint({"a", "b"}, 2)

C16_MissingElementsTolerated ==
    /\ endCause # "parse"
    /\ pc = "insert" =>
          /\ ~doc.title => project_data.project_title = "N/A"
          /\ ~doc.summary =>
                project_data.project_description = "No description available"
          /\ doc.maint # "link" => project_data.project_maintainer = "Unknown"

\* C17: the enrichment fields of a Record are all unset, which is so when
\* the page named no repository or get_repo_details returned None, or all
\* taken from the object that the one get_repo_details call of the Record
\* returned; that call is made at most once for a Record.
C17_EnrichmentAllOrNothing ==
    pc = "insert" =>
        LET r == project_data.repo_fields
            unenriched == doc.repo = "none" \/ "enrich" \in failures
        IN /\ enrichCalls[projects[idx]] <= 1
           /\ enrichCalls[projects[idx]] = 0 <=> doc.repo = "none"
           /\ unenriched => \A f \in RepoFields : r[f] = "unset"
           /\ ~unenriched => \A f \in RepoFields : r[f] = "response"

\* A Record whose page named a repository and whose enrichment call
\* returned the API's object.
C17_Witness ==
    /\ pc = "insert"
    /\ doc.repo = "ok"
    /\ "enrich" \notin failures
    /\ enrichCalls[projects[idx]] = 1
    /\ \A f \in RepoFields : project_data.repo_fields[f] = "response"

\* The links of the current listing page have all been skipped as visited,
\* sent to the sink, or given up on after a detail fetch.
PageHandled ==
    /\ idx > Len(projects)
    /\ \A i \in 1..Len(projects) :
          \/ projects[i] \in visited_projects
          \/ detailFetches[projects[i]] > 0

C19_StateInvariant ==
    /\ (InSave \/ pc = "advance") => last_page = page /\ PageHandled
    /\ (pc \in {"paging", "items", "insert"} /\ page > firstPage
           /\ firstPage # 0) =>
          /\ last_page = page - 1
          /\ Len(saveLog) = page - firstPage

\* C19: within a run last_page never decreases; it is set to n only when
\* every link of listing page n has been handled; and save_progress has run
\* (ending well or not) for page n before the listing of page n+1 is asked
\* for.
C19_LastPageIsLastCompleted ==
    /\ []C19_StateInvariant
    /\ [][runs' = runs => last_page' >= last_page]_vars

\* Page 1 listed links that were given up on, last_page became 1, the save
\* ran, and the engine is about to ask for page 2.
C19_Witness ==
    /\ pc = "paging"
    /\ firstPage = 1
    /\ page = 2
    /\ last_page = 1
    /\ Len(saveLog) = 1
    /\ \E l \in Links : detailFetches[l] > 0

\* C20: load_progress raises for no content of the progress file; a missing
\* file and a file that does not hold a checkpoint object start the engine
\* with no visited link and last_page 1, a checkpoint is loaded as saved.
C20_LoadIsBestEffort ==
    /\ endCause # "load"
    /\ pc = "constructed" =>
          IF loaded.kind = "checkpoint"
             THEN /\ visited_projects = loaded.visited_projects
                  /\ last_page = loaded.last_page
             ELSE /\ visited_projects = {}
                  /\ last_page = 1

\* The links of the current page whose detail page was not fetched and
\* that were never handed to the sink.
UnavailableOnPage ==
    {projects[i] : i \in 1..Len(projects)} \cap
        {l \in Links : noneReturns[l] > 0 /\ sinkCalls[l] = 0}

\* Once scrape_project_page returned None for a link, the link is in
\* visited_projects only by a hand-over to the sink at another attempt; a
\* page with such links, once its loop is over, is recorded as last_page
\* and the checkpoint that is saved has that page and none of these links.
C21_UnavailableStateInvariant ==
    /\ \A l \in Links :
          (noneReturns[l] > 0 /\ l \in visited_projects) => sinkCalls[l] > 0
    /\ (InSave /\ UnavailableOnPage # {}) =>
          /\ last_page = page
          /\ newData = SaveData(visited_projects, page)
          /\ UnavailableOnPage \cap newData.visited_projects = {}
    /\ \A l \in Links :
          (noneReturns[l] > 0 /\ sinkCalls[l] = 0 /\ pc = "constructed"
             /\ loaded.kind = "checkpoint")
              => l \notin loaded.visited_projects

\* C21: a link whose detail page cannot be fetched is not handed to the
\* sink and not added to visited_projects, the loop goes on with the next
\* link of the page, the page is completed all the same (last_page is set
\* to it and the checkpoint is saved without the link), and a later run
\* does not find the link in its visited set, so it fetches it again.
C21_UnavailableItemPassedOver ==
    /\ []C21_UnavailableStateInvariant
    /\ [][noneReturns' # noneReturns =>
             /\ sinkCalls' = sinkCalls
             /\ sinkCallsRun' = sinkCallsRun
             /\ visited_projects' = visited_projects
             /\ last_page' = last_page
             /\ pc' = "items"
             /\ idx' = idx + 1]_vars

\* The detail page of "a" was not fetched in the first run, page 1 was
\* completed and saved; the second run loaded that checkpoint, listed page
\* 1 again and asked for the detail page of "a" once more.
C21_Witness ==
    /\ runs = 2
    /\ loaded.kind = "checkpoint"
    /\ loaded.last_page = 1
    /\ "a" \notin loaded.visited_projects
    /\ firstPage = 1
    /\ sinkCalls["a"] = 0
    /\ detailFetches["a"] = 1
    /\ noneReturns["a"] = 2

(***************************************************************************)
(* SpecFetch: calls of fetch_page, one after the other.                    *)
(***************************************************************************)
\* self.fetch_page(url) is called: control enters sleep_and_retry.
FetchCall ==
    /\ fpc = "idle"
    /\ api = "pypi"
    /\ calls < MaxCalls
    /\ \E u \in Urls :
          /\ url' = u
          /\ hitNow' = Live(u)
    /\ calls' = calls + 1
    /\ charged' = FALSE
    /\ slept' = FALSE
    /\ fpc' = "limiter"
    /\ UNCHANGED <<clock, num_calls, last_reset, cache, attempt, winGets,
                   timeouts, outcomes, delays, returned, engineVars, otherVars>>

\* The wrapper of limits: an elapsed window is reset, the call is counted,
\* and the call goes through while the count is within the quota.
LimiterAdmit ==
    /\ fpc = "limiter"
    /\ LET reset == PeriodRemaining <= 0
           n == (IF reset THEN 0 ELSE num_calls) + 1
       IN /\ n <= RATE_LIMIT_CALLS
          /\ num_calls' = n
          /\ last_reset' = IF reset THEN clock ELSE last_reset
          /\ winGets' = IF reset THEN 0 ELSE winGets
    /\ charged' = TRUE
    /\ attempt' = 0
    /\ fpc' = "attempt"
    /\ UNCHANGED <<clock, cache, url, calls, timeouts, hitNow, slept,
                   outcomes, delays, returned, engineVars, otherVars>>

\* The wrapper of limits raises RateLimitException(period_remaining) for a
\* call over the quota; sleep_and_retry sleeps that long and calls again.
LimiterSleep ==
    /\ fpc = "limiter"
    /\ PeriodRemaining > 0
    /\ num_calls + 1 > RATE_LIMIT_CALLS
    /\ num_calls' = num_calls + 1
    /\ clock' = clock + PeriodRemaining
    /\ slept' = TRUE
    /\ UNCHANGED <<last_reset, cache, fpc, url, attempt, calls, winGets,
                   timeouts, hitNow, charged, outcomes, delays, returned,
                   engineVars, otherVars>>

\* self.session.get(url, ...) finds a live cache entry: response.content is
\* returned, nothing is sent.
GetFromCache ==
    /\ fpc = "attempt"
    /\ Live(url)
    /\ outcomes' = Append(outcomes, "cached")
    /\ returned' = "content"
    /\ fpc' = "return"
    /\ UNCHANGED <<clock, num_calls, last_reset, cache, url, attempt, calls,
                   winGets, timeouts, hitNow, charged, slept, delays,
                   engineVars, otherVars>>

\* self.session.get(url, ...) sends the request.  A 200 answer is cached and
\* returned; an HTTP error status or a transport error leaves the loop and
\* None is returned; a timeout goes on to the backoff sleep.
GetFromNetwork ==
    /\ fpc = "attempt"
    /\ ~Live(url)
    /\ winGets' = IF clock < last_reset + RATE_LIMIT_PERIOD
                     THEN winGets + 1 ELSE winGets
    /\ \E outcome \in GetOutcomes :
          /\ outcomes' = Append(outcomes, outcome)
          /\ CASE outcome = "ok" ->
                     /\ cache' = [cache EXCEPT ![url] = clock + CacheExpiry]
                     /\ returned' = "content"
                     /\ fpc' = "return"
                     /\ UNCHANGED <<clock, timeouts>>
               [] outcome # "ok" /\ FetchPageRetries(outcome) ->
                     /\ timeouts < MaxTimeouts
                     /\ timeouts' = timeouts + 1
                     /\ clock' = IF outcome = "timeout"
                                    THEN clock + RequestTimeout ELSE clock
                     /\ fpc' = "backoff"
                     /\ UNCHANGED <<cache, returned>>
               [] OTHER ->
                     /\ returned' = "None"
                     /\ fpc' = "return"
                     /\ UNCHANGED <<clock, cache, timeouts>>
    /\ UNCHANGED <<num_calls, last_reset, url, attempt, calls, hitNow,
                   charged, slept, delays, engineVars, otherVars>>

\* sleep_time = backoff_factor * (2**attempt) + random.uniform(...);
\* time.sleep(sleep_time); the for loop takes the next attempt, or ends
\* and None is returned.
BackoffSleep ==
    /\ fpc = "backoff"
    /\ \E j \in Jitter :
          /\ clock' = clock + Backoff(attempt) + j
          /\ delays' = Append(delays, Backoff(attempt) + j)
    /\ attempt' = attempt + 1
    /\ fpc' = IF MoreAttempts(attempt) THEN "attempt" ELSE "return"
    /\ returned' = IF MoreAttempts(attempt) THEN returned ELSE "None"
    /\ UNCHANGED <<num_calls, last_reset, cache, url, calls, winGets,
                   timeouts, hitNow, charged, slept, outcomes, engineVars,
                   otherVars>>

\* return response.content, or return None: the call is over and its
\* locals are gone.
FetchReturn ==
    /\ fpc = "return"
    /\ fpc' = "idle"
    /\ outcomes' = <<>>
    /\ delays' = <<>>
    /\ returned' = "pending"
    /\ UNCHANGED <<clock, num_calls, last_reset, cache, url, attempt, calls,
                   winGets, timeouts, hitNow, charged, slept, engineVars,
                   otherVars>>

NextFetch ==
    \/ FetchCall
    \/ LimiterAdmit
    \/ LimiterSleep
    \/ GetFromCache
    \/ GetFromNetwork
    \/ BackoffSleep
    \/ FetchReturn

\* No engine runs beside the calls: the index and the disk are fixed.
InitFetchAlone ==
    /\ InitFetch
    /\ InitRepo
    /\ InitClient
    /\ InitEngine
    /\ site = [p \in 1..NumPages |-> <<>>]
    /\ fs = [n \in FileNames |-> Absent]

SpecFetch == InitFetchAlone /\ [][NextFetch]_vars

(***************************************************************************)
(* Properties of fetch_page.                                               *)
(***************************************************************************)
\* C9: a call whose URL has a live cache entry does not go through the rate
\* limiter: it takes none of the calls of the window and never sleeps in
\* sleep_and_retry.
C9_CacheHitBypassesLimiter == hitNow => ~charged /\ ~slept

\* C10: inside one window of the limiter (RATE_LIMIT_PERIOD seconds from
\* last_reset) fetch_page sends at most RATE_LIMIT_CALLS requests to the
\* network.
C10_NetworkGetsWithinQuota == winGets <= RATE_LIMIT_CALLS


(***************************************************************************)
(* fetch_github_api: its limiter, its cached session, its retries.         *)
(***************************************************************************)
MaxGhCalls == 61          \* fetch_github_api calls in one behaviour

\* The API URLs asked for.
GhUrls == {"u1"}

GitHubAPI_RATE_LIMIT_CALLS == 5000
GitHubAPI_RATE_LIMIT_PERIOD == 3600
UnauthenticatedCalls == 60
Cooldown == 60
GhRetries == 3
GhBackoffFactor == 1
GhDelayLow == 3
GhDelayHigh == 6
GhCacheExpiry == 3600
GhRequestTimeout == 10

\* self.RATE_LIMIT_CALLS after __init__: the class attribute, shadowed by
\* an instance attribute when there is no token.
InstanceRateLimitCalls(token) ==
    IF token THEN GitHubAPI_RATE_LIMIT_CALLS ELSE UnauthenticatedCalls

\* The calls argument of @limits: the name RATE_LIMIT_CALLS is read in the
\* class body, when the class is defined and before any __init__ runs.
DecoratorCalls(token) == GitHubAPI_RATE_LIMIT_CALLS

\* random.uniform(3, 6): the two ends of the range
GhJitter == {GhDelayLow, GhDelayHigh}

\* backoff_factor * (2**attempt)
GhBackoff(i) == GhBackoffFactor * (2 ^ i)

\* The except clauses of fetch_github_api that do not break.
GithubRetries(outcome) == outcome \in {"403", "500", "timeout"}

\* for attempt in range(retries), after the sleep that ends attempt a
GhMoreAttempts(a) == a + 1 < GhRetries

GhPeriodRemaining == GitHubAPI_RATE_LIMIT_PERIOD - (clock - last_reset)

\* self.fetch_github_api(api_url) is called: control enters sleep_and_retry.
GhCall ==
    /\ fpc = "idle"
    /\ api = "github"
    /\ calls < MaxGhCalls
    /\ url' \in GhUrls
    /\ calls' = calls + 1
    /\ fpc' = "gh_limiter"
    /\ UNCHANGED <<clock, num_calls, last_reset, cache, attempt, winGets,
                   timeouts, hitNow, charged, slept, outcomes, delays,
                   returned, engineVars, repoVars, clientVars>>

\* The wrapper of limits and sleep_and_retry around it: an elapsed window
\* is reset and the call is counted; within the quota the call goes
\* through, over it the caller sleeps to the end of the window and calls
\* again.
GhLimiter ==
    /\ fpc = "gh_limiter"
    /\ LET reset == GhPeriodRemaining <= 0
           n == (IF reset THEN 0 ELSE num_calls) + 1
       IN /\ num_calls' = n
          /\ last_reset' = IF reset THEN clock ELSE last_reset
          /\ IF n <= DecoratorCalls(github_token)
                THEN /\ admitted' = (IF reset THEN 0 ELSE admitted) + 1
                     /\ attempt' = 0
                     /\ fpc' = "gh_attempt"
                     /\ clock' = clock
                ELSE /\ clock' = clock + GhPeriodRemaining
                     /\ admitted' = IF reset THEN 0 ELSE admitted
                     /\ UNCHANGED <<attempt, fpc>>
    /\ UNCHANGED <<cache, url, calls, winGets, timeouts, hitNow, charged,
                   slept, outcomes, delays, returned, engineVars, repoVars,
                   api, github_token>>

\* self.session.get(url, ...) finds a live cache entry.
GhGetFromCache ==
    /\ fpc = "gh_attempt"
    /\ Live(url)
    /\ outcomes' = Append(outcomes, "cached")
    /\ returned' = "content"
    /\ fpc' = "gh_return"
    /\ UNCHANGED <<clock, num_calls, last_reset, cache, url, attempt, calls,
                   winGets, timeouts, hitNow, charged, slept, delays,
                   engineVars, otherVars>>

\* self.session.get(url, ...) sends the request.  A 200 answer is cached
\* and returned; 404 and a transport error leave the loop; 403 sleeps the
\* cooldown, and 403, another error status and a timeout go on to the
\* backoff sleep.
GhGetFromNetwork ==
    /\ fpc = "gh_attempt"
    /\ ~Live(url)
    /\ \E outcome \in GetOutcomes :
          /\ outcomes' = Append(outcomes, outcome)
          /\ CASE outcome = "ok" ->
                     /\ cache' = [cache EXCEPT ![url] = clock + GhCacheExpiry]
                     /\ returned' = "content"
                     /\ fpc' = "gh_return"
                     /\ UNCHANGED <<clock, timeouts>>
               [] outcome # "ok" /\ GithubRetries(outcome) ->
                     /\ timeouts < MaxTimeouts
                     /\ timeouts' = timeouts + 1
                     /\ clock' = CASE outcome = "timeout" ->
                                         clock + GhRequestTimeout
                                   [] outcome = "403" -> clock + Cooldown
                                   [] OTHER -> clock
                     /\ fpc' = "gh_backoff"
                     /\ UNCHANGED <<cache, returned>>
               [] OTHER ->
                     /\ returned' = "None"
                     /\ fpc' = "gh_return"
                     /\ UNCHANGED <<clock, cache, timeouts>>
    /\ UNCHANGED <<num_calls, last_reset, url, attempt, calls, winGets,
                   hitNow, charged, slept, delays, engineVars, otherVars>>

\* sleep_time = backoff_factor * (2**attempt) + random.uniform(3, 6);
\* time.sleep(sleep_time); the for loop takes the next attempt, or ends
\* and None is returned.
GhBackoffSleep ==
    /\ fpc = "gh_backoff"
    /\ \E j \in GhJitter :
          /\ clock' = clock + GhBackoff(attempt) + j
          /\ delays' = Append(delays, GhBackoff(attempt) + j)
    /\ attempt' = attempt + 1
    /\ fpc' = IF GhMoreAttempts(attempt) THEN "gh_attempt" ELSE "gh_return"
    /\ returned' = IF GhMoreAttempts(attempt) THEN returned ELSE "None"
    /\ UNCHANGED <<num_calls, last_reset, cache, url, calls, winGets,
                   timeouts, hitNow, charged, slept, outcomes, engineVars,
                   otherVars>>

\* return response.content, or return None.
GhReturn ==
    /\ fpc = "gh_return"
    /\ fpc' = "idle"
    /\ outcomes' = <<>>
    /\ delays' = <<>>
    /\ returned' = "pending"
    /\ UNCHANGED <<clock, num_calls, last_reset, cache, url, attempt, calls,
                   winGets, timeouts, hitNow, charged, slept, engineVars,
                   otherVars>>

NextGithub ==
    \/ GhCall
    \/ GhLimiter
    \/ GhGetFromCache
    \/ GhGetFromNetwork
    \/ GhBackoffSleep
    \/ GhReturn

(***************************************************************************)
(* SpecClients: calls through one of the two clients, one after the other. *)
(***************************************************************************)
InitClients ==
    /\ InitFetch
    /\ InitRepo
    /\ InitEngine
    /\ site = [p \in 1..NumPages |-> <<>>]
    /\ fs = [n \in FileNames |-> Absent]
    /\ api \in {"pypi", "github"}
    /\ github_token \in BOOLEAN
    /\ api = "pypi" => ~github_token
    /\ admitted = 0

NextClients == NextFetch \/ NextGithub

SpecClients == InitClients /\ [][NextClients]_vars

(***************************************************************************)
(* Properties of the two fetch paths.                                      *)
(***************************************************************************)
\* The current call has reached its return statement.
Returning == fpc \in {"return", "gh_return"}

\* The retries, backoff_factor and jitter range of the current client.
MaxAttempts == IF api = "pypi" THEN Retries ELSE GhRetries

BaseBackoff == IF api = "pypi" THEN BackoffFactor ELSE GhBackoffFactor

JitterLow == IF api = "pypi" THEN DelayLow ELSE GhDelayLow

JitterHigh == IF api = "pypi" THEN DelayHigh ELSE GhDelayHigh

\* A 404 answer and a transport error that is not a timeout.
Permanent == {"404", "request_error"}

\* The session.get of the attempt returned a body.
Success == {"ok", "cached"}

AllOutcomesIn(S) ==
    outcomes # <<>> /\ \A i \in 1..Len(outcomes) : outcomes[i] \in S

\* C11: the limiter in front of fetch_github_api lets through at most 60
\* calls per window without a GITHUB_TOKEN and at most 5000 with one.
C11_GithubQuota ==
    api = "github" => admitted <= InstanceRateLimitCalls(github_token)

\* C12: in both fetch paths an attempt that ends with 404 or with a
\* transport error other than a timeout is the last attempt of its call:
\* no attempt follows it, when it is the first it is the only one, and the
\* call returns None.
C12_PermanentFailureAborts ==
    /\ \A i \in 1..(Len(outcomes) - 1) : outcomes[i] \notin Permanent
    /\ (outcomes # <<>> /\ outcomes[1] \in Permanent) => Len(outcomes) = 1
    /\ LastOutcome \in Permanent => Returning /\ returned = "None"

C12_Witness ==
    /\ fpc = "return"
    /\ outcomes = <<"request_error">>
    /\ returned = "None"

\* C13: in both fetch paths an error status other than 404 is retried, so
\* a call whose every attempt is answered 403 or 500 returns after exactly
\* maxAttempts attempts.
C13_ErrorStatusRetried ==
    (Returning /\ AllOutcomesIn({"403", "500"}))
        => Len(outcomes) = MaxAttempts /\ returned = "None"

\* C14: in both fetch paths a call makes at most maxAttempts attempts; when
\* every attempt times out it makes exactly maxAttempts and returns None;
\* an attempt that succeeds is the last one and its body is returned.
C14_BoundedRetryOnTimeouts ==
    /\ Len(outcomes) <= MaxAttempts
    /\ (Returning /\ AllOutcomesIn({"timeout"}))
          => Len(outcomes) = MaxAttempts /\ returned = "None"
    /\ \A i \in 1..(Len(outcomes) - 1) : outcomes[i] \notin Success
    /\ LastOutcome \in Success => Returning /\ returned = "content"

C14_Witness ==
    /\ Returning
    /\ outcomes = <<"timeout", "timeout", "timeout">>
    /\ returned = "None"

\* C15 as stated: the delay slept after attempt i is baseBackoff * 2^i plus
\* a jitter from [jitterLow, jitterHigh], and within one call no delay is
\* smaller than the one before it.
C15_DelaysNonDecreasing ==
    /\ \A k \in 1..Len(delays) :
          /\ delays[k] >= BaseBackoff * (2 ^ (k - 1)) + JitterLow
          /\ delays[k] <= BaseBackoff * (2 ^ (k - 1)) + JitterHigh
    /\ \A k \in 2..Len(delays) : delays[k] >= delays[k - 1]

\* C15: the delay slept after attempt i lies between baseBackoff * 2^i +
\* jitterLow and baseBackoff * 2^i + jitterHigh; a delay is smaller than
\* the one before it by at most jitterHigh - jitterLow - baseBackoff *
\* 2^(i-1).
C15_DelayWithinJitterBand ==
    /\ \A k \in 1..Len(delays) :
          /\ delays[k] >= BaseBackoff * (2 ^ (k - 1)) + JitterLow
          /\ delays[k] <= BaseBackoff * (2 ^ (k - 1)) + JitterHigh
    /\ \A k \in 2..Len(delays) :
          delays[k - 1] - delays[k]
              <= JitterHigh - JitterLow - BaseBackoff * (2 ^ (k - 2))

C15_Witness ==
    /\ Returning
    /\ AllOutcomesIn({"timeout"})
    /\ Len(delays) = 3
    /\ delays[2] < delays[1]

(***************************************************************************)
(* SpecRepo: get_repo_details is called with one URL.                      *)
(***************************************************************************)
\* self.github_api.get_repo_details(project_github_repo) is called
RepoCall ==
    /\ rpc = "idle"
    /\ github_url' \in RepoUrls
    /\ rpc' = "called"
    /\ UNCHANGED <<repo_out, engineVars, fetchVars, clientVars>>

\* owner, repo = self.extract_owner_repo(github_url); if not owner or not
\* repo: return None; otherwise the API is asked
RepoResolve ==
    /\ rpc = "called"
    /\ repo_out' = RepoDetailsStart(github_url)
    /\ rpc' = "returned"
    /\ UNCHANGED <<github_url, engineVars, fetchVars, clientVars>>

NextRepo == RepoCall \/ RepoResolve

SpecRepo == InitFetchAlone /\ [][NextRepo]_vars

\* The non-empty pieces of a path, in order.
NonEmptyPieces(q) == SelectSeq(q, LAMBDA x : x # <<>>)

\* text without a ".git" at its end
WithoutGitSuffix(text) ==
    IF Len(text) >= 4 /\ OccursAt(text, DotGit, Len(text) - 3)
       THEN SubSeq(text, 1, Len(text) - 4)
       ELSE text

\* C18: for a URL whose path has two non-empty pieces, owner is the first
\* and repo the second without a ".git" at its end; for a URL with fewer,
\* a URL without a path included, get_repo_details returns None, raises
\* nothing and asks the API nothing.
C18_OwnerRepoResolution ==
    rpc = "returned" =>
        LET q == IF github_url.path THEN NonEmptyPieces(github_url.pieces)
                 ELSE <<>>
        IN /\ ~repo_out.raised
           /\ IF Len(q) >= 2
                 THEN /\ repo_out.owner = q[1]
                      /\ repo_out.repo = WithoutGitSuffix(q[2])
                 ELSE /\ repo_out.returnedNone
                      /\ ~repo_out.apiCalled

====
